---- MODULE Spec2Model ----
(***************************************************************************)
(* MyVector<T_, std::allocator<T_>> (source/MyVector.h) and MyIterator<T_> *)
(* (source/MyIterator.h) as a state machine over an explicit heap.         *)
(*                                                                         *)
(* A buffer is a sequence of slots.  A slot is Raw (allocated memory that  *)
(* holds no live object) or holds a live element value.  A vector is the   *)
(* triple data_/size_/capacity_ of the class.  Reads of a slot that holds  *)
(* no live object, or that lies outside its buffer, are undefined: they    *)
(* yield an arbitrary value g.  Writes outside the buffer are undefined:   *)
(* they may land in a slot of any other allocated buffer, or nowhere.      *)
(***************************************************************************)
EXTENDS Integers, Sequences, FiniteSets, TLC

VARIABLES vec, heap, last, track

vars == <<vec, heap, last, track>>

-----------------------------------------------------------------------------
(* Bounds of the model. *)

NumValues == 2
NumBufs == 3
MaxN == 2
MaxPush == 3
MaxAppend == 7
MaxPairSize == 2

Values == 1..NumValues
BufIds == 1..NumBufs
Vecs == {"A", "B"}

\* slot contents: Raw (no live object), a value, or MovedFrom (a live object
\* whose value is unspecified after std::move took it)
Raw == 0
MovedFrom == NumValues + 1
Null == 0
DefaultValue == 1

Max(a, b) == IF a >= b THEN a ELSE b
Min(a, b) == IF a <= b THEN a ELSE b

RECURSIVE Pow2(_)
Pow2(n) == IF n <= 0 THEN 1 ELSE 2 * Pow2(n - 1)

-----------------------------------------------------------------------------
(* std::allocator / std::allocator_traits. *)

FreeIds(h) == {b \in BufIds : ~h[b].alloc}

\* allocate succeeds unless the failure is injected or the heap is exhausted
CanAllocate(h, ok) == ok /\ FreeIds(h) # {}

NewBuf(h) == CHOOSE b \in FreeIds(h) : \A c \in FreeIds(h) : b <= c

Allocate(h, b, n) == [h EXCEPT ![b] = [alloc |-> TRUE, cells |-> [k \in 1..n |-> Raw]]]

Deallocate(h, p) == IF p = Null THEN h ELSE [h EXCEPT ![p] = [alloc |-> FALSE, cells |-> <<>>]]

\* slot i (0-based) of buffer p exists
InBounds(h, p, i) == p # Null /\ i >= 0 /\ i < Len(h[p].cells)

\* the slot holds a live object
Live(h, p, i) == InBounds(h, p, i) /\ h[p].cells[i + 1] # Raw

\* data_[i] read as a value; g is what an undefined or unspecified read yields
Load(h, p, i, g) == IF Live(h, p, i) /\ h[p].cells[i + 1] \in Values THEN h[p].cells[i + 1] ELSE g

\* AllocTraits_::construct(alloc_, p + i, x) for a slot inside the buffer
Construct(h, p, i, x) == IF InBounds(h, p, i) THEN [h EXCEPT ![p].cells[i + 1] = x] ELSE h

\* AllocTraits_::destroy(alloc_, p + i) for i in [lo, hi)
DestroyRange(h, p, lo, hi) ==
    IF p = Null THEN h
    ELSE [h EXCEPT ![p].cells = [k \in 1..Len(@) |-> IF lo < k /\ k <= hi THEN Raw ELSE @[k]]]

\* construct(alloc_, p + i, vals[i]) for every i that lies inside the buffer
ConstructSeq(h, p, vals) ==
    IF p = Null THEN h
    ELSE [h EXCEPT ![p].cells = [k \in 1..Len(@) |-> IF k <= Len(vals) THEN vals[k] ELSE @[k]]]

\* number of slots of the buffer p points to
Slots(h, p) == IF p = Null THEN 0 ELSE Len(h[p].cells)

\* the values a loop writes past the end of a buffer of n slots
Spill(vals, n) == IF Len(vals) > n THEN SubSeq(vals, n + 1, Len(vals)) ELSE <<>>

Outcome(self, h, e, sp) == [vec |-> self, heap |-> h, exc |-> e, spill |-> sp]

-----------------------------------------------------------------------------
(* MyVector: private and capacity operations. *)

EmptyVec == [alive |-> TRUE, data |-> Null, size |-> 0, cap |-> 0]

Unborn == [alive |-> FALSE, data |-> Null, size |-> 0, cap |-> 0]

\* the index at which an injected element-constructor failure strikes a loop
\* of n constructions (fail is {} or {t}); n when none does
ThrowIndex(fail, n) == IF \E t \in fail : t < n THEN CHOOSE t \in fail : t < n ELSE n

\* the values a loop over [0, size_) reads from data_, in slot order
ReadValuesShifted(self, h, g) == [k \in 1..self.size |-> Load(h, self.data, k, g)]

ReadValues(self, h, g) == [k \in 1..self.size |-> Load(h, self.data, k - 1, g)]

Reallocate(self, h, new_capacity, ok, fail, g) ==
    IF ~CanAllocate(h, ok) THEN Outcome(self, h, "bad_alloc", <<>>)
    ELSE LET new_data == NewBuf(h)
             h1 == Allocate(h, new_data, new_capacity)
             vals == ReadValues(self, h, g)
             i == ThrowIndex(fail, self.size)
         IN  IF i < self.size
             THEN \* moves 0..i-1 succeeded and each destroyed its source;
                  \* the catch block destroys new_data[0..i) and releases new_data
                  LET h2 == ConstructSeq(h1, new_data, SubSeq(vals, 1, i))
                      h3 == DestroyRange(h2, self.data, 0, i)
                      h4 == DestroyRange(h3, new_data, 0, i)
                  IN  Outcome(self, Deallocate(h4, new_data), "ctor",
                              Spill(SubSeq(vals, 1, i), new_capacity))
             ELSE LET h2 == ConstructSeq(h1, new_data, vals)
                      h3 == DestroyRange(h2, self.data, 0, self.size)
                      h4 == IF self.data # Null THEN Deallocate(h3, self.data) ELSE h3
                  IN  Outcome([self EXCEPT !.data = new_data, !.cap = new_capacity],
                              h4, "none", Spill(vals, new_capacity))

ReserveAtCapacity(self, h, n, ok, fail, g) ==
    IF n < self.cap THEN Outcome(self, h, "none", <<>>)
    ELSE Reallocate(self, h, n, ok, fail, g)

Reserve(self, h, n, ok, fail, g) ==
    IF n <= self.cap THEN Outcome(self, h, "none", <<>>)
    ELSE Reallocate(self, h, n, ok, fail, g)

GrowthCapacityPlusOne(cap) == cap + 1

GrowthCapacity(cap) == IF cap # 0 THEN cap * 2 ELSE 1

PushBackCountsFirst(self, h, value, ok, fail, g) ==
    LET r == IF self.size >= self.cap
             THEN Reserve(self, h, GrowthCapacity(self.cap), ok, fail, g)
             ELSE Outcome(self, h, "none", <<>>)
    IN  IF r.exc # "none" THEN [r EXCEPT !.vec.size = @ + 1]
        ELSE Outcome([r.vec EXCEPT !.size = @ + 1],
                     Construct(r.heap, r.vec.data, r.vec.size, value),
                     "none",
                     r.spill \o (IF InBounds(r.heap, r.vec.data, r.vec.size) THEN <<>> ELSE <<value>>))

PushBack(self, h, value, ok, fail, g) ==
    LET r == IF self.size >= self.cap
             THEN Reserve(self, h, GrowthCapacity(self.cap), ok, fail, g)
             ELSE Outcome(self, h, "none", <<>>)
    IN  IF r.exc # "none" THEN r
        ELSE Outcome([r.vec EXCEPT !.size = @ + 1],
                     Construct(r.heap, r.vec.data, r.vec.size, value),
                     "none",
                     r.spill \o (IF InBounds(r.heap, r.vec.data, r.vec.size) THEN <<>> ELSE <<value>>))

PopBackNoDestroy(self, h) ==
    IF self.size > 0 THEN Outcome([self EXCEPT !.size = @ - 1], h, "none", <<>>)
    ELSE Outcome(self, h, "none", <<>>)

PopBack(self, h) ==
    IF self.size > 0
    THEN Outcome([self EXCEPT !.size = @ - 1], DestroyRange(h, self.data, self.size - 1, self.size), "none", <<>>)
    ELSE Outcome(self, h, "none", <<>>)

\* for (i = lo; i < hi; ++i) construct(alloc_, data_ + i)
DefaultConstructRange(h, p, lo, hi) ==
    IF p = Null THEN h
    ELSE [h EXCEPT ![p].cells = [k \in 1..Len(@) |-> IF lo < k /\ k <= hi THEN DefaultValue ELSE @[k]]]

Resize(self, h, new_size) ==
    LET h1 == IF new_size < self.size THEN DestroyRange(h, self.data, new_size, self.size)
              ELSE IF new_size > self.size THEN DefaultConstructRange(h, self.data, new_size, self.size)
              ELSE h
    IN  Outcome([self EXCEPT !.size = new_size], h1, "none", <<>>)

Clear(self, h) == Outcome([self EXCEPT !.size = 0], DestroyRange(h, self.data, 0, self.size), "none", <<>>)

ShrinkToFit(self, h, ok, fail, g) ==
    IF self.cap = self.size THEN Outcome(self, h, "none", <<>>)
    ELSE IF ~CanAllocate(h, ok) THEN Outcome(self, h, "bad_alloc", <<>>)
    ELSE LET new_data == NewBuf(h)
             h1 == Allocate(h, new_data, self.size)
             vals == ReadValues(self, h, g)
             i == ThrowIndex(fail, self.size)
             \* std::move(data_[k]) leaves the source a live, moved-from object
             from(n) == IF self.data = Null THEN h1
                        ELSE [h1 EXCEPT ![self.data].cells =
                                [k \in 1..Len(@) |-> IF k <= n /\ @[k] # Raw THEN MovedFrom ELSE @[k]]]
         IN  IF i < self.size
             THEN \* the catch block releases new_data without destroying new_data[0..i)
                  Outcome(self, Deallocate(ConstructSeq(from(i), new_data, SubSeq(vals, 1, i)), new_data),
                          "ctor", <<>>)
             ELSE LET h2 == ConstructSeq(from(self.size), new_data, vals)
                      h3 == DestroyRange(h2, self.data, 0, self.size)
                      h4 == Deallocate(h3, self.data)
                  IN  Outcome([self EXCEPT !.data = new_data, !.cap = self.size], h4, "none", <<>>)

\* for (i = 0; i < n; ++i) push_back(val)
RECURSIVE PushBackLoop(_, _, _, _, _, _)
PushBackLoop(r, n, val, ok, fail, g) ==
    IF n = 0 \/ r.exc # "none" THEN r
    ELSE LET s == PushBack(r.vec, r.heap, val, ok, fail, g)
         IN  PushBackLoop([s EXCEPT !.spill = r.spill \o @], n - 1, val, ok, fail, g)

Assing(self, h, n, val, ok, fail, g) == PushBackLoop(Clear(self, h), n, val, ok, fail, g)

-----------------------------------------------------------------------------
(* MyVector: construction, destruction, copy and move. *)

\* construct(alloc_, data_ + i, vals[i]) for i < Len(vals), stopping at an
\* injected failure; the outcome carries the buffer as the loop left it
CopyInto(self, h, vals, fail) ==
    LET i == ThrowIndex(fail, Len(vals))
        done == SubSeq(vals, 1, i)
    IN  IF i < Len(vals)
        THEN Outcome(self, ConstructSeq(h, self.data, done), "ctor", Spill(done, Slots(h, self.data)))
        ELSE Outcome([self EXCEPT !.size = Len(vals)], ConstructSeq(h, self.data, vals), "none",
                     Spill(vals, Slots(h, self.data)))

\* MyVector(size_t n, const T_& value)
SizedCtor(h, n, value, ok) ==
    LET r == Reserve(EmptyVec, h, n, ok, {}, DefaultValue)
    IN  IF r.exc # "none" THEN r
        ELSE IF ~CanAllocate(r.heap, ok) THEN Outcome(r.vec, r.heap, "bad_alloc", <<>>)
        ELSE CopyInto(r.vec, Allocate(r.heap, NewBuf(r.heap), n), [k \in 1..n |-> value], {})

\* MyVector(Iter_ first, Iter_ last) and MyVector(std::initializer_list<T_>)
RangeCtor(h, vals, ok, fail) ==
    LET r == Reserve(EmptyVec, h, Len(vals), ok, {}, DefaultValue)
    IN  IF r.exc # "none" THEN r ELSE CopyInto(r.vec, r.heap, vals, fail)

\* MyVector(const MyVector& other)
CopyCtor(other, h, ok, fail, g) ==
    LET r == Reserve(EmptyVec, h, other.cap, ok, {}, g)
    IN  IF r.exc # "none" THEN r ELSE CopyInto(r.vec, r.heap, ReadValues(other, h, g), fail)

\* operator=(const MyVector& other), this != &other
CopyAssign(self, other, h, ok, fail, g) ==
    LET c == Clear(self, h)
        r == Reserve(c.vec, c.heap, other.cap, ok, {}, g)
    IN  IF r.exc # "none" THEN r ELSE CopyInto(r.vec, r.heap, ReadValues(other, h, g), fail)

\* MyVector(MyVector&& other): the fields left in other
MoveCtorOtherKeeps(other) == other

MoveCtorOther(other) == [other EXCEPT !.data = Null, !.size = 0, !.cap = 0]

\* operator=(MyVector&& other), this != &other: the new fields of *this
MoveAssignSelf(self, other) ==
    LET adopted == [self EXCEPT !.data = other.data, !.size = other.size, !.cap = other.cap]
    IN  [adopted EXCEPT !.data = Null, !.size = 0, !.cap = 0]

\* operator=(MyVector&& other), this != &other: the fields left in other
MoveAssignOther(self, other) == other

\* ~MyVector()
Destructor(self, h) ==
    LET c == Clear(self, h)
    IN  Outcome(Unborn, IF self.data # Null THEN Deallocate(c.heap, self.data) ELSE c.heap, "none", <<>>)

-----------------------------------------------------------------------------
(* Observers. *)

Size(v) == vec[v].size
Capacity(v) == vec[v].cap
Empty(v) == vec[v].size = 0

\* operator[](i): the slot's content (Raw when no live object is there)
Index(v, i) == IF InBounds(heap, vec[v].data, i) THEN heap[vec[v].data].cells[i + 1] ELSE Raw

\* MyIterator: an address is a buffer and an offset in it
Iter(p, off) == [buf |-> p, off |-> off]
Begin(v) == Iter(vec[v].data, 0)
End(v) == Iter(vec[v].data, vec[v].size)
Deref(it) == IF InBounds(heap, it.buf, it.off) THEN heap[it.buf].cells[it.off + 1] ELSE Raw
Incr(it) == [it EXCEPT !.off = @ + 1]

\* for (it = first; it != last; ++it) collect *it
RECURSIVE Traverse(_, _)
Traverse(first, lastIt) ==
    IF first = lastIt THEN <<>> ELSE <<Deref(first)>> \o Traverse(Incr(first), lastIt)

\* a checked access returns a reference (the address of a slot) or throws
NoRef == Iter(Null, 0)
Access(e, ref) == [exc |-> e, ref |-> ref]

AtOffByOne(self, index) ==
    IF index > self.size THEN Access("out_of_range", NoRef) ELSE Access("none", Iter(self.data, index))

\* at(index)
At(self, index) ==
    IF index >= self.size THEN Access("out_of_range", NoRef) ELSE Access("none", Iter(self.data, index))

\* front(): *begin()
Front(self) ==
    IF self.size = 0 THEN Access("runtime_error", NoRef) ELSE Access("none", Iter(self.data, 0))

\* back(): *(end() - 1)
Back(self) ==
    IF self.size = 0 THEN Access("runtime_error", NoRef) ELSE Access("none", Iter(self.data, self.size - 1))

DataNoEmptyCheck(v) == Begin(v).buf

\* data()
Data(v) == IF Empty(v) THEN Null ELSE Begin(v).buf

\* the range [0, size_) of a vector as operator[] shows it
Elems(v) == [k \in 1..vec[v].size |-> Index(v, k - 1)]

-----------------------------------------------------------------------------
(* History kept for the properties. *)

\* pure:   default-constructed, then only push_back calls that returned
\* log:    the values those calls appended; growths: how many of them reallocated
\* moved:  emptied by a move constructor, then only push_back, reserve, clear
\* copy:   one side of a copy construction, both sides still alive
NoTrack == [pure |-> FALSE, log |-> <<>>, growths |-> 0, moved |-> FALSE, copy |-> FALSE]

Other(v) == CHOOSE w \in Vecs : w # v

\* the slots an out-of-bounds write through p can land in: those of the
\* buffers other vectors own (a hit anywhere else is never observed)
Victims(h, p) ==
    {w \in BufIds \X (1..(2 * MaxPush)) :
        /\ w[1] # p /\ h[w[1]].alloc /\ w[2] <= Len(h[w[1]].cells)
        /\ \E v \in Vecs : vec[v].alive /\ vec[v].data = w[1]}

Hits(r) == IF r.spill = <<>> THEN {<<0, 0>>} ELSE {<<0, 0>>} \cup Victims(r.heap, r.vec.data)

Smash(h, sp, hit) == IF hit[1] = 0 THEN h ELSE [h EXCEPT ![hit[1]].cells[hit[2]] = sp[Len(sp)]]

Fails == {{}} \cup {{t} : t \in 0..(MaxN - 1)}

\* arg: the size_t argument of the call, kept for at() and reserve()
CommitArg(op, v, src, arg, newvec, h, e, tr) ==
    /\ vec' = newvec
    /\ heap' = h
    /\ last' = [op |-> op, v |-> v, src |-> src, exc |-> e, arg |-> arg, ret |-> NoRef]
    /\ track' = tr

Commit(op, v, src, newvec, h, e, tr) == CommitArg(op, v, src, 0, newvec, h, e, tr)

\* an operation on one vector: keeps the flags named in keep
SingleArg(op, v, arg, r, keep) ==
    \E hit \in Hits(r) :
        CommitArg(op, v, v, arg, [vec EXCEPT ![v] = r.vec], Smash(r.heap, r.spill, hit), r.exc,
               [track EXCEPT ![v] = [NoTrack EXCEPT !.moved = track[v].moved /\ "moved" \in keep,
                                                    !.copy = track[v].copy /\ "copy" \in keep]])

\* a const member function: the call and what it returned are recorded,
\* nothing else is assigned
Observe(op, v, arg, r) ==
    /\ last' = [op |-> op, v |-> v, src |-> v, exc |-> r.exc, arg |-> arg, ret |-> r.ref]
    /\ UNCHANGED <<vec, heap, track>>

Single(op, v, r, keep) == SingleArg(op, v, 0, r, keep)

-----------------------------------------------------------------------------
(* Actions: one per public operation. *)

Init ==
    /\ vec = [v \in Vecs |-> Unborn]
    /\ heap = [b \in BufIds |-> [alloc |-> FALSE, cells |-> <<>>]]
    /\ last = [op |-> "init", v |-> "A", src |-> "A", exc |-> "none", arg |-> 0, ret |-> NoRef]
    /\ track = [v \in Vecs |-> NoTrack]

\* logged: whether the history of appends is kept for this vector
DefaultCtor(v, logged) ==
    /\ ~vec[v].alive
    /\ Commit("ctor", v, v, [vec EXCEPT ![v] = EmptyVec], heap, "none",
              [track EXCEPT ![v] = [NoTrack EXCEPT !.pure = logged]])

\* a constructor that throws leaves no object behind
Born(r) == IF r.exc = "none" THEN r ELSE [r EXCEPT !.vec = Unborn]

DoSizedCtor(v, n, value, ok) ==
    /\ ~vec[v].alive
    /\ Single("sized_ctor", v, Born(SizedCtor(heap, n, value, ok)), {})

DoRangeCtor(v, vals, ok, fail) ==
    /\ ~vec[v].alive
    /\ Single("range_ctor", v, Born(RangeCtor(heap, vals, ok, fail)), {})

DoCopyCtor(v, o, ok, fail) ==
    /\ ~vec[v].alive /\ vec[o].alive
    /\ \E g \in Values :
         LET r == CopyCtor(vec[o], heap, ok, fail, g)
         IN  \E hit \in Hits(r) :
               Commit("copy_ctor", v, o, [vec EXCEPT ![v] = Born(r).vec], Smash(r.heap, r.spill, hit), r.exc,
                      [w \in Vecs |-> [NoTrack EXCEPT !.copy = (r.exc = "none"),
                                                      !.moved = (w = o /\ track[o].moved)]])

DoMoveCtor(v, o) ==
    /\ ~vec[v].alive /\ vec[o].alive
    /\ Commit("move_ctor", v, o,
              [vec EXCEPT ![v] = vec[o], ![o] = MoveCtorOther(vec[o])],
              heap, "none",
              [w \in Vecs |-> [NoTrack EXCEPT !.moved = (w = o)]])

DoCopyAssign(v, o, ok, fail) ==
    /\ vec[v].alive /\ vec[o].alive
    /\ IF v = o
       THEN Single("copy_assign", v, Outcome(vec[v], heap, "none", <<>>), {"copy"})
       ELSE \E g \in Values :
              LET r == CopyAssign(vec[v], vec[o], heap, ok, fail, g)
              IN  \E hit \in Hits(r) :
                    Commit("copy_assign", v, o, [vec EXCEPT ![v] = r.vec], Smash(r.heap, r.spill, hit), r.exc,
                           [w \in Vecs |-> NoTrack])

DoMoveAssign(v, o) ==
    /\ vec[v].alive /\ vec[o].alive
    /\ IF v = o
       THEN Single("move_assign", v, Outcome(vec[v], heap, "none", <<>>), {"copy"})
       ELSE LET c == Clear(vec[v], heap)
            IN  Commit("move_assign", v, o,
                       [vec EXCEPT ![v] = MoveAssignSelf(vec[v], vec[o]), ![o] = MoveAssignOther(vec[v], vec[o])],
                       Deallocate(c.heap, vec[v].data), "none", [w \in Vecs |-> NoTrack])

DoDestructor(v) ==
    /\ vec[v].alive
    /\ LET r == Destructor(vec[v], heap)
       IN  Commit("dtor", v, v, [vec EXCEPT ![v] = r.vec], r.heap, "none", [w \in Vecs |-> NoTrack])

PushTrack(v, value, r) ==
    [NoTrack EXCEPT !.pure = track[v].pure /\ r.exc = "none",
                    !.log = IF track[v].pure /\ r.exc = "none" THEN Append(track[v].log, value) ELSE <<>>,
                    !.growths = IF track[v].pure /\ r.exc = "none"
                                THEN track[v].growths + (IF r.vec.data # vec[v].data THEN 1 ELSE 0)
                                ELSE 0,
                    !.moved = track[v].moved,
                    !.copy = track[v].copy]

DoPushBack(v, value, ok, fail, limit) ==
    /\ vec[v].alive
    /\ vec[v].size < limit
    /\ \E g \in Values :
         LET r == PushBack(vec[v], heap, value, ok, fail, g)
         IN  \E hit \in Hits(r) :
               Commit("push_back", v, v, [vec EXCEPT ![v] = r.vec], Smash(r.heap, r.spill, hit), r.exc,
                      [track EXCEPT ![v] = PushTrack(v, value, r)])

DoPopBack(v) ==
    /\ vec[v].alive
    /\ Single("pop_back", v, PopBack(vec[v], heap), {"copy"})

DoResize(v, n) ==
    /\ vec[v].alive
    /\ Single("resize", v, Resize(vec[v], heap, n), {"copy"})

\* noted: whether the history keeps the argument of the call
DoReserve(v, n, ok, fail, noted) ==
    /\ vec[v].alive
    /\ \E g \in Values : SingleArg("reserve", v, IF noted THEN n ELSE 0, Reserve(vec[v], heap, n, ok, fail, g), {"copy", "moved"})

DoClear(v) ==
    /\ vec[v].alive
    /\ Single("clear", v, Clear(vec[v], heap), {"copy", "moved"})

DoSwap(v, o) ==
    /\ vec[v].alive /\ vec[o].alive
    /\ Commit("swap", v, o, [vec EXCEPT ![v] = vec[o], ![o] = vec[v]], heap, "none", [w \in Vecs |-> NoTrack])

DoShrinkToFit(v, ok, fail) ==
    /\ vec[v].alive
    /\ \E g \in Values : Single("shrink_to_fit", v, ShrinkToFit(vec[v], heap, ok, fail, g), {"copy"})

DoAssing(v, n, val, ok) ==
    /\ vec[v].alive
    /\ \E g \in Values : Single("assing", v, Assing(vec[v], heap, n, val, ok, {}, g), {"copy"})

DoAt(v, index) ==
    /\ vec[v].alive
    /\ Observe("at", v, index, At(vec[v], index))

DoFront(v) ==
    /\ vec[v].alive
    /\ Observe("front", v, 0, Front(vec[v]))

DoBack(v) ==
    /\ vec[v].alive
    /\ Observe("back", v, 0, Back(vec[v]))

InitLists == {<<>>} \cup {<<x>> : x \in Values} \cup {<<x, y>> : x \in Values, y \in Values}

\* one vector and every member function of it, with injected allocation
\* failures (ok = FALSE) and element-constructor failures (fail = {t})
Next ==
    \/ DefaultCtor("A", FALSE)
    \/ \E n \in 0..MaxN, x \in Values, ok \in BOOLEAN : DoSizedCtor("A", n, x, ok)
    \/ \E vals \in InitLists, ok \in BOOLEAN, fail \in Fails : DoRangeCtor("A", vals, ok, fail)
    \/ DoDestructor("A")
    \/ \E x \in Values, ok \in BOOLEAN, fail \in Fails : DoPushBack("A", x, ok, fail, MaxPush)
    \/ DoPopBack("A")
    \/ \E n \in 0..MaxN : DoResize("A", n)
    \/ \E n \in 0..MaxN, ok \in BOOLEAN, fail \in Fails : DoReserve("A", n, ok, fail, TRUE)
    \/ DoClear("A")
    \/ \E ok \in BOOLEAN, fail \in Fails : DoShrinkToFit("A", ok, fail)
    \/ \E n \in 0..MaxN, x \in Values, ok \in BOOLEAN : DoAssing("A", n, x, ok)
    \/ DoCopyAssign("A", "A", TRUE, {})
    \/ DoMoveAssign("A", "A")
    \/ \E i \in 0..MaxPush : DoAt("A", i)
    \/ DoFront("A")
    \/ DoBack("A")

Spec == Init /\ [][Next]_vars

\* two vectors: copy, move, assignment and swap between them, and the
\* member functions that grow, shrink and refill one of them; no failure is
\* injected
NextPair ==
    \/ \E v \in Vecs : DefaultCtor(v, FALSE)
    \/ \E v \in Vecs, vals \in InitLists : DoRangeCtor(v, vals, TRUE, {})
    \/ \E v \in Vecs : DoCopyCtor(v, Other(v), TRUE, {})
    \/ \E v \in Vecs : DoMoveCtor(v, Other(v))
    \/ \E v \in Vecs : DoCopyAssign(v, Other(v), TRUE, {})
    \/ \E v \in Vecs : DoMoveAssign(v, Other(v))
    \/ \E v \in Vecs : DoDestructor(v)
    \/ \E v \in Vecs, x \in Values : DoPushBack(v, x, TRUE, {}, MaxPairSize)
    \/ \E v \in Vecs, n \in 0..MaxPairSize : DoResize(v, n)
    \/ \E v \in Vecs, n \in 0..MaxPairSize : DoReserve(v, n, TRUE, {}, FALSE)
    \/ \E v \in Vecs : DoClear(v)
    \/ \E v \in Vecs : DoSwap(v, Other(v))

SpecPair == Init /\ [][NextPair]_vars

\* a vector that is default-constructed, appended to and destroyed, no
\* failure injected
NextAppend ==
    \/ DefaultCtor("A", TRUE)
    \/ \E x \in Values : DoPushBack("A", x, TRUE, {}, MaxAppend)
    \/ DoDestructor("A")

SpecAppend == Init /\ [][NextAppend]_vars

\* a vector that is filled and then copy-constructed from, with injected
\* allocation and element copy-constructor failures in the copy
NextCopy ==
    \/ \E vals \in InitLists : DoRangeCtor("A", vals, TRUE, {})
    \/ \E x \in Values : DoPushBack("A", x, TRUE, {}, MaxPush)
    \/ \E ok \in BOOLEAN, fail \in Fails : DoCopyCtor("B", "A", ok, fail)
    \/ \E v \in Vecs : DoDestructor(v)

SpecCopy == Init /\ [][NextCopy]_vars

-----------------------------------------------------------------------------
(* Properties. *)

\* the class invariant of the data model: size_ <= capacity_ and the slots
\* [0, size_) hold live elements with a value
WellFormed(v) ==
    /\ vec[v].size <= vec[v].cap
    /\ \A i \in 0..(vec[v].size - 1) : Index(v, i) \in Values

Mutators == {"push_back", "pop_back", "resize", "reserve", "clear", "shrink_to_fit", "assing"}

\* C1: after any sequence of public operations, size() <= capacity().
C1_SizeLeCapacity == \A v \in Vecs : vec[v].alive => Size(v) <= Capacity(v)

\* C2: after N push_back calls on an initially empty vector, size() == N,
\* operator[](i) is the i-th appended value for every i < N, and iterating
\* from begin() to end() visits exactly those values in insertion order.
C2_AppendRetrievable ==
    \A v \in Vecs : track[v].pure =>
        /\ Size(v) = Len(track[v].log)
        /\ \A i \in 0..(Len(track[v].log) - 1) : Index(v, i) = track[v].log[i + 1]
        /\ Traverse(Begin(v), End(v)) = track[v].log

C2_Witness ==
    \E v \in Vecs : /\ track[v].pure /\ track[v].growths >= 3
                    /\ Len(track[v].log) >= 4 /\ track[v].log[1] # track[v].log[2]

\* C3: from an empty vector under push_back alone, the capacity after the
\* k-th reallocation is max(1, 2^(k-1)), and a push_back made while
\* size() < capacity() changes neither the capacity nor the buffer address.
C3_GrowthLaw ==
    /\ [](\A v \in Vecs : track[v].pure =>
            Capacity(v) = (IF track[v].growths = 0 THEN 0 ELSE Max(1, Pow2(track[v].growths - 1))))
    /\ [][\A v \in Vecs :
            (track[v].pure /\ last'.op = "push_back" /\ last'.v = v /\ vec[v].size < vec[v].cap)
                => (vec'[v].cap = vec[v].cap /\ vec'[v].data = vec[v].data)]_vars

C3_Witness ==
    \E v \in Vecs : /\ track[v].pure /\ track[v].growths = 4 /\ Capacity(v) = 8
                    /\ last.op = "push_back" /\ last.v = v /\ Size(v) = 6

\* C4: if an element move-constructor throws partway through the reallocation
\* of a push_back at full capacity, the vector keeps its size, its capacity
\* and every original element, live and in order.
C4_StrongGuaranteeOnThrow ==
    [][\A v \in Vecs :
         (last'.op = "push_back" /\ last'.v = v /\ last'.exc = "ctor" /\ WellFormed(v))
            => /\ vec'[v].size = vec[v].size
               /\ vec'[v].cap = vec[v].cap
               /\ Elems(v)' = Elems(v)]_vars

\* C5: after B = std::move(A) with A and B distinct, B has A's prior size,
\* capacity and elements, and A has size 0, capacity 0 and no buffer.
C5_MoveAssignTransfers ==
    [][\A v \in Vecs, o \in Vecs :
         (last'.op = "move_assign" /\ last'.v = v /\ last'.src = o /\ v # o)
            => /\ vec'[v].size = vec[o].size
               /\ vec'[v].cap = vec[o].cap
               /\ Elems(v)' = Elems(o)
               /\ vec'[o].size = 0 /\ vec'[o].cap = 0 /\ vec'[o].data = Null]_vars

\* C6: move-constructing B from A gives B the size, capacity, buffer and
\* elements A had, allocates and copies nothing, and leaves A as a
\* default-constructed vector (size 0, capacity 0, no buffer); push_back,
\* reserve, clear and destruction of A afterwards keep A's size within its
\* capacity and leave the other vector and its buffer untouched.
C6_MoveConstruct ==
    /\ [](\A o \in Vecs : track[o].moved =>
            /\ vec[o].alive /\ WellFormed(o)
            /\ (vec[o].data # Null => \A v \in Vecs : v # o => vec[v].data # vec[o].data))
    /\ [][\A v \in Vecs, o \in Vecs : v # o =>
            /\ (last'.op = "move_ctor" /\ last'.v = v /\ last'.src = o)
                 => /\ vec'[v] = vec[o]
                    /\ Elems(v)' = Elems(o)
                    /\ heap' = heap
                    /\ vec'[o] = EmptyVec
            /\ (track[o].moved /\ last'.v = o /\ last'.src = o
                    /\ last'.op \in {"push_back", "reserve", "clear", "dtor"})
                 => /\ vec'[v] = vec[v]
                    /\ (vec[v].data # Null => heap'[vec[v].data] = heap[vec[v].data])]_vars

C6_Witness ==
    \E v \in Vecs, o \in Vecs :
        /\ v # o /\ track[o].moved /\ last.op = "push_back" /\ last.v = o
        /\ Size(o) = 2 /\ Size(v) = 2 /\ vec[v].alive /\ vec[v].data # Null

\* C7: after copy-constructing C from O the two own distinct buffers with
\* equal size and equal elements, and mutating either one afterwards leaves
\* the other's size, capacity and elements unchanged.
C7_DeepCopyIndependent ==
    [][\A c \in Vecs, o \in Vecs : c # o =>
         /\ (last'.op = "copy_ctor" /\ last'.v = c /\ last'.src = o /\ last'.exc = "none")
              => /\ vec'[c].size = vec'[o].size
                 /\ Elems(c)' = Elems(o)'
                 /\ (vec'[c].data = Null \/ vec'[c].data # vec'[o].data)
         /\ (track[c].copy /\ track[o].copy /\ last'.v = c /\ last'.src = c /\ last'.op \in Mutators)
              => /\ vec'[o] = vec[o]
                 /\ Elems(o)' = Elems(o)]_vars

\* C8: after copy assignment A = B with A and B distinct, A has B's size,
\* B's elements in order and B's capacity, whatever A's capacity was, and B
\* is unchanged.
C8_CopyAssign ==
    [][\A v \in Vecs, o \in Vecs :
         (last'.op = "copy_assign" /\ last'.v = v /\ last'.src = o /\ v # o /\ last'.exc = "none"
             /\ WellFormed(v) /\ WellFormed(o))
            => /\ vec'[v].size = vec[o].size
               /\ Elems(v)' = Elems(o)
               /\ vec'[v].cap = vec[o].cap
               /\ vec'[o] = vec[o] /\ Elems(o)' = Elems(o)]_vars

\* C9: resize(new_size) destroys exactly the elements in [new_size, size)
\* when shrinking, default-constructs a live element in every slot of
\* [size, new_size) when growing, sets size() to new_size and leaves the
\* elements below min(size, new_size) unchanged.
C9_Resize ==
    [][\A v \in Vecs :
         (last'.op = "resize" /\ last'.v = v /\ WellFormed(v))
            => \A i \in 0..(2 * MaxPush) :
                 /\ (i < Min(vec[v].size, vec'[v].size)) => Index(v, i)' = Index(v, i)
                 /\ (vec[v].size <= i /\ i < vec'[v].size) => Index(v, i)' = DefaultValue
                 /\ (vec'[v].size <= i /\ i < vec[v].size) => Index(v, i)' = Raw]_vars

\* C10: shrink_to_fit() called twice in a row leaves capacity() == size()
\* after each call, with the same element values in the same order before,
\* between and after the calls.  Each of the two calls is a shrink_to_fit
\* step that returns, so the statement is made of every such step.
C10_ShrinkToFitTwice ==
    [][\A v \in Vecs :
         (last'.op = "shrink_to_fit" /\ last'.v = v /\ last'.exc = "none" /\ vec[v].size <= vec[v].cap)
            => /\ vec'[v].cap = vec'[v].size
               /\ Elems(v)' = Elems(v)]_vars

\* C11: checked access never mutates and fails exactly on invalid input:
\* at(i) throws std::out_of_range for every i >= size() and otherwise returns
\* a reference to slot i, the one operator[](i) designates; front() and
\* back() throw std::runtime_error when size() == 0; no call changes the
\* size, the capacity, the buffer or an element.
C11_CheckedAccess ==
    [][\A v \in Vecs :
         /\ (last'.v = v /\ last'.op \in {"at", "front", "back"})
              => (vec' = vec /\ heap' = heap /\ Elems(v)' = Elems(v))
         /\ (last'.v = v /\ last'.op = "at")
              => /\ (last'.arg >= vec[v].size) => last'.exc = "out_of_range"
                 /\ (last'.arg < vec[v].size)
                      => /\ last'.exc = "none"
                         /\ last'.ret = Iter(vec[v].data, last'.arg)
                         /\ Deref(last'.ret) = Index(v, last'.arg)
         /\ (last'.v = v /\ last'.op \in {"front", "back"} /\ vec[v].size = 0)
              => last'.exc = "runtime_error"]_vars

C11_Witness ==
    /\ last.op = "at" /\ last.v = "A" /\ last.exc = "out_of_range"
    /\ last.arg = 0 /\ Size("A") = 0 /\ Capacity("A") > 0

\* C12: pop_back() on a non-empty vector destroys the element in slot
\* size() - 1 and nothing else, decreases size() by one and keeps the
\* capacity, the buffer and every other slot; pop_back() on an empty vector
\* throws nothing and changes nothing.
C12_PopBack ==
    [][\A v \in Vecs :
         (last'.op = "pop_back" /\ last'.v = v)
            => /\ last'.exc = "none"
               /\ vec'[v].cap = vec[v].cap /\ vec'[v].data = vec[v].data
               /\ (vec[v].size > 0)
                    => /\ vec'[v].size = vec[v].size - 1
                       /\ \A i \in 0..(2 * MaxPush) :
                            Index(v, i)' = (IF i = vec[v].size - 1 THEN Raw ELSE Index(v, i))
               /\ (vec[v].size = 0) => (vec' = vec /\ heap' = heap)]_vars

C12_Witness ==
    /\ last.op = "pop_back" /\ last.v = "A" /\ Size("A") = 1 /\ Capacity("A") = 2
    /\ Index("A", 0) \in Values /\ Index("A", 1) = Raw

\* C13 as stated: after clear() on any vector, size() == 0, capacity() is
\* what it was before the call, and data() returns a non-null address if and
\* only if the capacity before the call was > 0.
C13_ClearDataIffCapacity ==
    [][\A v \in Vecs :
         (last'.op = "clear" /\ last'.v = v)
            => /\ vec'[v].size = 0
               /\ vec'[v].cap = vec[v].cap
               /\ (Data(v)' # Null) <=> (vec[v].cap > 0)]_vars

\* C13 amended: after clear() on any vector, size() == 0, capacity() is what
\* it was before the call, the vector keeps its buffer, and data() returns
\* null whatever the capacity was.
C13_ClearDataNull ==
    [][\A v \in Vecs :
         (last'.op = "clear" /\ last'.v = v)
            => /\ vec'[v].size = 0
               /\ vec'[v].cap = vec[v].cap
               /\ vec'[v].data = vec[v].data
               /\ Data(v)' = Null]_vars

C13_Witness ==
    /\ last.op = "clear" /\ last.v = "A" /\ Size("A") = 0 /\ Capacity("A") = 2
    /\ vec["A"].data # Null /\ Data("A") = Null

\* C14: a reserve(n) that returns changes nothing when n <= capacity() and
\* makes the capacity exactly n when n > capacity(); either way size() and
\* the value of every live element, slot by slot, are unchanged; and a
\* push_back made while size() < capacity() keeps the capacity and the
\* buffer, so no reallocation happens before size() reaches the capacity.
C14_Reserve ==
    [][\A v \in Vecs :
         /\ (last'.op = "reserve" /\ last'.v = v /\ last'.exc = "none")
              => /\ (last'.arg <= vec[v].cap) => (vec' = vec /\ heap' = heap)
                 /\ (last'.arg > vec[v].cap) => vec'[v].cap = last'.arg
                 /\ vec'[v].size = vec[v].size
                 /\ \A i \in 0..(2 * MaxPush) :
                      (i < vec[v].size /\ Index(v, i) \in Values) => Index(v, i)' = Index(v, i)
         /\ (last'.op = "push_back" /\ last'.v = v /\ vec[v].size < vec[v].cap)
              => /\ last'.exc = "none"
                 /\ vec'[v].cap = vec[v].cap
                 /\ vec'[v].data = vec[v].data]_vars

C14_Witness ==
    /\ last.op = "reserve" /\ last.v = "A" /\ last.exc = "none" /\ last.arg = 2
    /\ Size("A") = 1 /\ Capacity("A") = 2 /\ vec["A"].data = 2
    /\ Index("A", 0) \in Values /\ Index("A", 1) = Raw

\* C15: when the allocation of the new buffer fails in a reallocation started
\* by reserve or by push_back at full capacity, the call throws
\* std::bad_alloc and the buffer, size, capacity and elements of the vector,
\* and the heap, are as before the call; a reserve or push_back that needed a
\* new buffer and returns normally has got one.
C15_AllocationFailure ==
    [][\A v \in Vecs :
         /\ (last'.op \in {"reserve", "push_back"} /\ last'.v = v /\ last'.exc = "bad_alloc")
              => /\ vec' = vec
                 /\ heap' = heap
                 /\ Elems(v)' = Elems(v)
                 /\ \/ last'.op = "reserve" /\ last'.arg > vec[v].cap
                    \/ last'.op = "push_back" /\ vec[v].size >= vec[v].cap
         /\ (last'.op = "reserve" /\ last'.v = v /\ last'.arg > vec[v].cap /\ last'.exc = "none")
              => (vec'[v].data # vec[v].data /\ vec'[v].cap = last'.arg)
         /\ (last'.op = "push_back" /\ last'.v = v /\ vec[v].size >= vec[v].cap /\ last'.exc = "none")
              => (vec'[v].data # vec[v].data /\ vec'[v].cap = GrowthCapacity(vec[v].cap))]_vars

C15_Witness ==
    /\ last.op = "push_back" /\ last.v = "A" /\ last.exc = "bad_alloc"
    /\ Size("A") = 2 /\ Capacity("A") = 2
    /\ Index("A", 0) \in Values /\ Index("A", 1) \in Values /\ FreeIds(heap) # {}

\* C16: if an element copy-constructor throws partway through the copy
\* construction of a vector, the elements already constructed are destroyed,
\* the new buffer is deallocated and the exception propagates: the heap is
\* as before the attempt and no object of the failed copy exists.
C16_CopyCtorThrowReleases ==
    [][\A c \in Vecs :
         (last'.op = "copy_ctor" /\ last'.v = c /\ last'.exc = "ctor")
            => /\ ~vec'[c].alive
               /\ heap' = heap]_vars

\* C17: if an element move-constructor throws during shrink_to_fit() on a
\* vector whose slots [0, size) hold live elements, the new buffer is
\* released and the buffer, size, capacity and element values of the vector
\* are as before the call.
C17_ShrinkToFitThrowRestores ==
    [][\A v \in Vecs :
         (last'.op = "shrink_to_fit" /\ last'.v = v /\ last'.exc = "ctor" /\ WellFormed(v))
            => /\ vec' = vec
               /\ FreeIds(heap') = FreeIds(heap)
               /\ Elems(v)' = Elems(v)]_vars

\* C18: in every reachable state of a vector, exactly the slots [0, size) of
\* its buffer hold live elements, and every slot in [size, capacity) is
\* allocated and holds no live element.
C18_LiveExactlyBelowSize ==
    \A v \in Vecs : vec[v].alive =>
        /\ \A i \in 0..(vec[v].size - 1) : Live(heap, vec[v].data, i)
        /\ \A i \in vec[v].size..(vec[v].cap - 1) :
              InBounds(heap, vec[v].data, i) /\ ~Live(heap, vec[v].data, i)

\* C19: once a destructor has returned and no vector is left, every buffer
\* obtained from the allocator has been deallocated: none is leaked.
C19_NoLeakAfterDestruction ==
    (last.op = "dtor" /\ \A v \in Vecs : ~vec[v].alive) => \A b \in BufIds : ~heap[b].alloc

\* C20: in every reachable state of a vector, its buffer pointer is non-null
\* if and only if capacity() > 0.
C20_BufferIffCapacity ==
    \A v \in Vecs : vec[v].alive => ((vec[v].data # Null) <=> (Capacity(v) > 0))

====
